---- MODULE Spec2Model ----
(***************************************************************************)
(* Model of Uri::Uri (src/Uri/src/Uri.cpp): the private Impl record, its   *)
(* reset, and ParseFromString with its helpers ParseUint16, ParsePath,     *)
(* ParseAuthority and ParseQueryAndFragment.                                *)
(*                                                                         *)
(* A std::string is a sequence of character codes (ASCII), so that the     *)
(* digit test (c < '0') || (c > '9') and the conversion c - '0' are the    *)
(* comparisons and the subtraction the code performs.  Positions are       *)
(* 0-based as in std::string; npos stands for std::string::npos.           *)
(***************************************************************************)
EXTENDS Integers, Sequences, FiniteSets, TLC

\* ---------------------------------------------------------------- bounds
MaxLen == 5          \* longest input of the exhaustive input set
MaxPortLen == 6      \* longest digit string of the port input set
MaxCalls == 3        \* calls of ParseFromString on one instance

\* ------------------------------------------------------- character codes
Colon == 58
Slash == 47
Question == 63
Hash == 35
At == 64
Minus == 45
Zero == 48
Nine == 57
LetterA == 97
Digit3 == 51
Digit5 == 53
Digit6 == 54
Digit8 == 56

npos == -1

\* ------------------------------------------------------ std::string part
Min(a, b) == IF a < b THEN a ELSE b

\* std::string::find(char): position of the first occurrence, or npos
Find(s, c) ==
    IF \E i \in 1..Len(s) : s[i] = c
    THEN (CHOOSE i \in 1..Len(s) : s[i] = c /\ \A j \in 1..(i-1) : s[j] # c) - 1
    ELSE npos

\* std::string::find_first_of(chars)
FindFirstOf(s, cs) ==
    IF \E i \in 1..Len(s) : s[i] \in cs
    THEN (CHOOSE i \in 1..Len(s) : s[i] \in cs /\ \A j \in 1..(i-1) : s[j] \notin cs) - 1
    ELSE npos

\* std::string::substr(pos, count); count = npos runs to the end
Substr(s, pos, count) ==
    IF count = npos THEN SubSeq(s, pos + 1, Len(s))
    ELSE SubSeq(s, pos + 1, Min(pos + count, Len(s)))

\* std::string::substr(pos)
SubstrFrom(s, pos) == SubSeq(s, pos + 1, Len(s))

\* ------------------------------------------------------------ ParseUint16
\* ParseUint16's loop with the range test written as "> 65536"
RECURSIVE ParseUint16LoopOffByOne(_, _, _)
ParseUint16LoopOffByOne(numberString, i, number32Bits) ==
    IF i > Len(numberString)
    THEN [ok |-> TRUE, number |-> number32Bits % 65536]
    ELSE LET c == numberString[i] IN
         IF (c < Zero) \/ (c > Nine)
         THEN [ok |-> FALSE, number |-> 0]
         ELSE LET n == number32Bits * 10 + (c - Zero) IN
              IF n > 65536
              THEN [ok |-> FALSE, number |-> 0]
              ELSE ParseUint16LoopOffByOne(numberString, i + 1, n)

\* the loop of ParseUint16 from character i on, number32Bits accumulated
RECURSIVE ParseUint16Loop(_, _, _)
ParseUint16Loop(numberString, i, number32Bits) ==
    IF i > Len(numberString)
    THEN [ok |-> TRUE, number |-> number32Bits % 65536]
    ELSE LET c == numberString[i] IN
         IF (c < Zero) \/ (c > Nine)
         THEN [ok |-> FALSE, number |-> 0]
         ELSE LET n == number32Bits * 10 + (c - Zero) IN
              IF n \div 65536 # 0
              THEN [ok |-> FALSE, number |-> 0]
              ELSE ParseUint16Loop(numberString, i + 1, n)

\* ParseUint16 storing the number through an 8-bit cast
ParseUint16Narrow(numberString) ==
    LET r == ParseUint16Loop(numberString, 1, 0)
    IN [ok |-> r.ok, number |-> r.number % 256]

ParseUint16(numberString) == ParseUint16Loop(numberString, 1, 0)

\* ------------------------------------------------------------- Uri::Impl
\* Uri::Uri() : impl_(new Impl): the strings and the vector are constructed
\* empty, the two flags and the port are left uninitialized.
UninitPorts == {0, 65535}

ConstructedImpls ==
    { [hasScheme |-> hs, scheme |-> <<>>, host |-> <<>>, path |-> <<>>,
       hasPort |-> hp, port |-> p, query |-> <<>>, fragment |-> <<>>,
       userInfo |-> <<>>] : hs \in BOOLEAN, hp \in BOOLEAN, p \in UninitPorts }

\* reset_impl without userInfo.clear()
reset_implKeepsUserInfo(impl) ==
    [impl EXCEPT !.hasScheme = FALSE, !.scheme = <<>>, !.host = <<>>,
                 !.path = <<>>, !.hasPort = FALSE, !.port = 0,
                 !.query = <<>>, !.fragment = <<>>]

reset_impl(impl) ==
    [impl EXCEPT !.hasScheme = FALSE, !.scheme = <<>>, !.host = <<>>,
                 !.path = <<>>, !.hasPort = FALSE, !.port = 0,
                 !.query = <<>>, !.fragment = <<>>, !.userInfo = <<>>]

\* ParsePath's loop leaving at the last '/' before the push_back
RECURSIVE ParsePathLoopDropsLast(_, _)
ParsePathLoopDropsLast(path, pathString) ==
    LET slashPos == Find(pathString, Slash)
    IN IF slashPos = npos THEN path
       ELSE ParsePathLoopDropsLast(Append(path, Substr(pathString, 0, slashPos)),
                                   SubstrFrom(pathString, slashPos + 1))

\* the for(;;) loop of ParsePath
RECURSIVE ParsePathLoop(_, _)
ParsePathLoop(path, pathString) ==
    LET slashPos == Find(pathString, Slash)
        pushed == Append(path, Substr(pathString, 0, slashPos))
    IN IF slashPos = npos THEN pushed
       ELSE ParsePathLoop(pushed, SubstrFrom(pathString, slashPos + 1))

\* ParsePath without the special case of the path "/"
ParsePathNoRootCase(impl, pathString) ==
    IF pathString # <<>>
    THEN [impl EXCEPT !.path = ParsePathLoop(@, pathString)]
    ELSE impl

ParsePath(impl, pathString) ==
    IF pathString = <<Slash>>
    THEN [impl EXCEPT !.path = Append(@, <<>>)]
    ELSE IF pathString # <<>>
         THEN [impl EXCEPT !.path = ParsePathLoop(@, pathString)]
         ELSE impl

ParseAuthority(impl, authorityString) ==
    LET userInfoDelimiter == Find(authorityString, At)
        hostAndPort == IF userInfoDelimiter = npos THEN authorityString
                       ELSE SubstrFrom(authorityString, userInfoDelimiter + 1)
        impl1 == IF userInfoDelimiter = npos THEN impl
                 ELSE [impl EXCEPT !.userInfo =
                          Substr(authorityString, 0, userInfoDelimiter)]
        hostEnd == Find(hostAndPort, Colon)
        impl2 == [impl1 EXCEPT !.host = Substr(hostAndPort, 0, hostEnd)]
    IN IF hostEnd # npos
       THEN LET portString == SubstrFrom(hostAndPort, hostEnd + 1)
                parsed == ParseUint16(portString)
            IN IF ~parsed.ok
               THEN [ok |-> FALSE, impl |-> impl2]
               ELSE [ok |-> TRUE,
                     impl |-> [impl2 EXCEPT !.port = parsed.number,
                                            !.hasPort = TRUE]]
       ELSE [ok |-> TRUE, impl |-> impl2]

\* ParseQueryAndFragment without the removal of the leading '?'
ParseQueryAndFragmentKeepsMarker(impl, queryAndOrFragmentString) ==
    LET fragmentStart == Find(queryAndOrFragmentString, Hash)
    IN IF fragmentStart # npos
       THEN [impl EXCEPT
               !.query = Substr(queryAndOrFragmentString, 0, fragmentStart),
               !.fragment = SubstrFrom(queryAndOrFragmentString,
                                       fragmentStart + 1)]
       ELSE [impl EXCEPT !.query = queryAndOrFragmentString]

ParseQueryAndFragment(impl, queryAndOrFragmentString) ==
    LET fragmentStart == Find(queryAndOrFragmentString, Hash)
        impl1 == IF fragmentStart # npos
                 THEN [impl EXCEPT
                         !.query = Substr(queryAndOrFragmentString, 0, fragmentStart),
                         !.fragment = SubstrFrom(queryAndOrFragmentString,
                                                 fragmentStart + 1)]
                 ELSE [impl EXCEPT !.query = queryAndOrFragmentString]
    IN IF Len(impl1.query) > 0
       THEN [impl1 EXCEPT !.query = SubstrFrom(@, 1)]
       ELSE impl1

\* the scheme step without "hasScheme = true"
ParseSchemeNoFlag(impl, uriString) ==
    LET schemeEnd == Find(uriString, Colon)
    IN IF schemeEnd = npos
       THEN [impl |-> [impl EXCEPT !.hasScheme = FALSE], rest |-> uriString]
       ELSE [impl |-> [impl EXCEPT !.scheme = Substr(uriString, 0, schemeEnd)],
             rest |-> SubstrFrom(uriString, schemeEnd + 1)]

\* "Parse the scheme" of ParseFromString: the Impl with the scheme set and
\* the rest of the string
ParseScheme(impl, uriString) ==
    LET schemeEnd == Find(uriString, Colon)
    IN IF schemeEnd = npos
       THEN [impl |-> [impl EXCEPT !.hasScheme = FALSE], rest |-> uriString]
       ELSE [impl |-> [impl EXCEPT !.hasScheme = TRUE,
                                   !.scheme = Substr(uriString, 0, schemeEnd)],
             rest |-> SubstrFrom(uriString, schemeEnd + 1)]

\* Uri::ParseFromString: the return value and the Impl it leaves behind
ParseFromString(impl, uriString) ==
    LET sch == ParseScheme(reset_impl(impl), uriString)
        rest == sch.rest
        pathEnd == FindFirstOf(rest, {Question, Hash})
        authorityAndPathString == Substr(rest, 0, pathEnd)
        hasAuthority == Substr(authorityAndPathString, 0, 2) = <<Slash, Slash>>
        stripped == SubstrFrom(authorityAndPathString, 2)
        found == Find(stripped, Slash)
        authorityEnd == IF found = npos THEN Len(stripped) ELSE found
        pathString == IF hasAuthority THEN SubstrFrom(stripped, authorityEnd)
                      ELSE authorityAndPathString
        authorityString == Substr(stripped, 0, authorityEnd)
        auth == IF hasAuthority THEN ParseAuthority(sch.impl, authorityString)
                ELSE [ok |-> TRUE, impl |-> sch.impl]
    IN IF ~auth.ok
       THEN [ok |-> FALSE, impl |-> auth.impl]
       ELSE LET impl2 == ParsePath(auth.impl, pathString)
                impl3 == IF pathEnd # npos
                         THEN ParseQueryAndFragment(impl2, SubstrFrom(rest, pathEnd))
                         ELSE impl2
            IN [ok |-> TRUE, impl |-> impl3]

\* -------------------------------------------------------------- accessors
GetScheme(impl) == impl.scheme
GetHost(impl) == impl.host
GetPath(impl) == impl.path
HasPort(impl) == impl.hasPort
GetPort(impl) == impl.port
IsRelativeReference(impl) == impl.scheme = <<>>
ContainsRelativePath(impl) ==
    IF impl.path = <<>> THEN TRUE ELSE ~(impl.path[1] = <<>>)
GetQuery(impl) == impl.query
GetFragment(impl) == impl.fragment
GetUserInfo(impl) == impl.userInfo

\* ------------------------------------------------------------------ state
VARIABLES impl,        \* *impl_, the private properties of the instance
          uriString,   \* argument of the last ParseFromString call
          returned,    \* its return value
          calls,       \* number of ParseFromString calls made so far
          stale        \* history: the last call was entered with some field
                       \* of *impl_ different from what reset_impl writes

vars == <<impl, uriString, returned, calls, stale>>

Init ==
    /\ impl \in ConstructedImpls
    /\ uriString = <<>>
    /\ returned = TRUE
    /\ calls = 0
    /\ stale = FALSE

\* a call uri.ParseFromString(s)
ParseFromStringCall(s) ==
    /\ LET r == ParseFromString(impl, s) IN
         /\ impl' = r.impl
         /\ returned' = r.ok
    /\ uriString' = s
    /\ calls' = calls + 1
    /\ stale' = (impl # reset_impl(impl))

\* ----------------------------------------------------------------- inputs
\* every string of at most MaxLen characters over the delimiters the parser
\* looks for, one letter and one digit
Alphabet == {Colon, Slash, Question, Hash, At, LetterA, Digit8}
GeneralInputs == UNION { [1..n -> Alphabet] : n \in 0..MaxLen }

\* "a://a:" followed by every string of 1 to MaxPortLen digits, with and
\* without a path after it
PortDigits == {Zero, Digit3, Digit5, Digit6}
PortStrings == UNION { [1..n -> PortDigits] : n \in 1..MaxPortLen }
PortPrefix == <<LetterA, Colon, Slash, Slash, LetterA, Colon>>
PortSuffixes == {<<>>, <<Slash, LetterA>>}
PortInputs == { PortPrefix \o d \o x : d \in PortStrings, x \in PortSuffixes }

ParseInputs == GeneralInputs \cup PortInputs

\* inputs of the calls that reuse one instance: one choice per component
Schemes == {<<>>, <<LetterA, Colon>>}
Authorities ==
    { <<>>,
      <<Slash, Slash, LetterA>>,
      <<Slash, Slash, LetterA, At, LetterA>>,
      <<Slash, Slash, LetterA, Colon, Digit8>>,
      <<Slash, Slash, LetterA, At, LetterA, Colon, Digit8, Zero>>,
      <<Slash, Slash, LetterA, Colon>>,
      <<Slash, Slash, LetterA, Colon, Minus, Digit8>> }
Paths == {<<>>, <<Slash>>, <<Slash, LetterA>>, <<LetterA, Slash>>}
Queries == {<<>>, <<Question, LetterA>>}
Fragments == {<<>>, <<Hash, LetterA>>}
ReuseInputs ==
    { sc \o au \o pa \o qu \o fr :
        sc \in Schemes, au \in Authorities, pa \in Paths,
        qu \in Queries, fr \in Fragments }

\* --------------------------------------------------------- specifications
\* one instance, ParseFromString called on it again and again
Next == calls < MaxCalls /\ \E s \in ReuseInputs : ParseFromStringCall(s)
Spec == Init /\ [][Next]_vars

\* ParseFromString as a function of its input: one call on a new instance
ParseOnce == calls = 0 /\ \E s \in ParseInputs : ParseFromStringCall(s)
SpecParse == Init /\ [][ParseOnce]_vars

\* ===================================================== the parts of an input
\* The vocabulary of the properties below, stated on the input text itself
\* (1-based, no use of the parser's operators).

\* index of the first character of s that is in cs, 0 if there is none
FirstIdx(s, cs) ==
    LET I == {i \in 1..Len(s) : s[i] \in cs}
    IN IF I = {} THEN 0 ELSE CHOOSE i \in I : \A j \in I : i <= j

Before(s, i) == SubSeq(s, 1, i - 1)
After(s, i) == SubSeq(s, i + 1, Len(s))
Occurs(c, s) == \E i \in 1..Len(s) : s[i] = c
Count(c, s) == Cardinality({i \in 1..Len(s) : s[i] = c})
StartsWithSlashSlash(s) == Len(s) >= 2 /\ s[1] = Slash /\ s[2] = Slash

\* the remainder after the scheme delimiter (the whole input without one)
Remainder(s) == IF Occurs(Colon, s) THEN After(s, FirstIdx(s, {Colon})) ELSE s
AuthorityPresent(s) == StartsWithSlashSlash(Remainder(s))

\* the remainder after the "//" marker, and the authority at its head
AfterMarker(s) == After(Remainder(s), 2)
AuthorityLen(s) ==
    LET e == FirstIdx(AfterMarker(s), {Slash, Question, Hash})
    IN IF e = 0 THEN Len(AfterMarker(s)) ELSE e - 1
AuthorityText(s) == SubSeq(AfterMarker(s), 1, AuthorityLen(s))
HostAndPortText(s) ==
    IF Occurs(At, AuthorityText(s))
    THEN After(AuthorityText(s), FirstIdx(AuthorityText(s), {At}))
    ELSE AuthorityText(s)
PortDelimited(s) == AuthorityPresent(s) /\ Occurs(Colon, HostAndPortText(s))
PortText(s) == After(HostAndPortText(s), FirstIdx(HostAndPortText(s), {Colon}))

\* the path text: what follows the authority (or the whole remainder) up to
\* the first '?' or '#'
PathAndBeyond(s) ==
    IF AuthorityPresent(s) THEN After(AfterMarker(s), AuthorityLen(s))
    ELSE Remainder(s)
PathText(s) ==
    LET e == FirstIdx(PathAndBeyond(s), {Question, Hash})
    IN IF e = 0 THEN PathAndBeyond(s) ELSE Before(PathAndBeyond(s), e)

\* the part of the remainder from its first '?' or '#' on
QueryFragmentPart(s) ==
    LET e == FirstIdx(Remainder(s), {Question, Hash})
    IN IF e = 0 THEN <<>> ELSE After(Remainder(s), e - 1)

Digits == 48..57
AllDigits(s) == \A i \in 1..Len(s) : s[i] \in Digits
\* value of a digit string
RECURSIVE DecimalValue(_)
DecimalValue(s) ==
    IF s = <<>> THEN 0
    ELSE 10 * DecimalValue(SubSeq(s, 1, Len(s) - 1)) + (s[Len(s)] - 48)

\* the segments joined with '/'
RECURSIVE Join(_)
Join(segs) ==
    IF segs = <<>> THEN <<>>
    ELSE IF Len(segs) = 1 THEN segs[1]
    ELSE segs[1] \o <<Slash>> \o Join(Tail(segs))

RECURSIVE TotalLen(_)
TotalLen(segs) == IF segs = <<>> THEN 0 ELSE Len(segs[1]) + TotalLen(Tail(segs))

\* what the accessors of an instance return
Accessors(i) ==
    [scheme |-> GetScheme(i), host |-> GetHost(i), path |-> GetPath(i),
     hasPort |-> HasPort(i), port |-> GetPort(i), query |-> GetQuery(i),
     fragment |-> GetFragment(i), userInfo |-> GetUserInfo(i),
     relativeReference |-> IsRelativeReference(i),
     relativePath |-> ContainsRelativePath(i)]

\* ================================================================== claims

\* the port substring is delimited and is not a number of 0..65535
BadPort(s) ==
    /\ PortDelimited(s)
    /\ \/ ~AllDigits(PortText(s))
       \/ DecimalValue(PortText(s)) > 65535

\* C1: ParseFromString returns false if and only if an authority is present,
\* its host-and-port part contains a ':' and the text after that first ':'
\* has a character outside '0'..'9' or denotes a value greater than 65535;
\* every other input returns true.
C1_FalseIffBadPort == calls > 0 => (returned = FALSE <=> BadPort(uriString))
C1_Witness ==
    /\ calls > 0 /\ returned = FALSE
    /\ AllDigits(PortText(uriString))
    /\ DecimalValue(PortText(uriString)) = 65536

\* C2: a non-empty all-digit port substring of value v in 0..65535 (leading
\* zeros allowed) makes ParseFromString return true with HasPort() true and
\* GetPort() = v; a host-and-port part without ':' makes it return true with
\* HasPort() false.
C2_PortAccepted ==
    (calls > 0 /\ AuthorityPresent(uriString)) =>
        /\ ( /\ PortDelimited(uriString)
             /\ PortText(uriString) # <<>>
             /\ AllDigits(PortText(uriString))
             /\ DecimalValue(PortText(uriString)) <= 65535 )
           => ( /\ returned
                /\ HasPort(impl)
                /\ GetPort(impl) = DecimalValue(PortText(uriString)) )
        /\ ~PortDelimited(uriString) => (returned /\ ~HasPort(impl))
C2_Witness ==
    /\ calls > 0 /\ returned /\ HasPort(impl) /\ GetPort(impl) = 65535
    /\ PortDelimited(uriString) /\ Len(PortText(uriString)) = 6

\* C3: a ':' in the host-and-port part followed by an empty port substring
\* makes ParseFromString return false, and no port is reported.
C3_EmptyPortRejected ==
    (calls > 0 /\ PortDelimited(uriString) /\ PortText(uriString) = <<>>)
        => (returned = FALSE /\ ~HasPort(impl))

\* no ':' occurs before the first '/', '?' or '#' of s
NoColonBeforeDelimiter(s) ==
    LET c == FirstIdx(s, {Colon})
        d == FirstIdx(s, {Slash, Question, Hash})
    IN c = 0 \/ (d # 0 /\ d < c)

\* C4: when no ':' occurs before the first '/', '?' or '#' of the input,
\* hasScheme is false and GetScheme() is empty after ParseFromString.
C4_NoSchemeWithoutLeadingColon ==
    (calls > 0 /\ NoColonBeforeDelimiter(uriString))
        => (impl.hasScheme = FALSE /\ GetScheme(impl) = <<>>)

\* C5: after a call that returns true, whatever calls came before it on the
\* instance, every accessor returns what it returns on a newly constructed
\* instance that parsed only that input.
C5_FullReset ==
    (calls > 0 /\ returned) =>
        \A fresh \in ConstructedImpls :
            Accessors(impl) = Accessors(ParseFromString(fresh, uriString).impl)
C5_Witness ==
    /\ calls >= 2 /\ stale /\ returned
    /\ ~AuthorityPresent(uriString)
    /\ GetUserInfo(impl) = <<>> /\ GetHost(impl) = <<>> /\ ~HasPort(impl)

\* C6: a newly constructed Uri on which ParseFromString was never called has
\* every field at its default, as after a successful ParseFromString("").
C6_ConstructedDefaults ==
    calls = 0 =>
        /\ ~HasPort(impl) /\ GetPort(impl) = 0 /\ impl.hasScheme = FALSE
        /\ GetScheme(impl) = <<>> /\ GetHost(impl) = <<>>
        /\ GetUserInfo(impl) = <<>> /\ GetQuery(impl) = <<>>
        /\ GetFragment(impl) = <<>> /\ GetPath(impl) = <<>>

\* the inputs of C7: no scheme, no authority, no '?' and no '#'
PathOnly(s) ==
    /\ ~Occurs(Colon, s) /\ ~Occurs(Question, s) /\ ~Occurs(Hash, s)
    /\ ~StartsWithSlashSlash(s)

\* C7 as stated: a path-only input with k '/' characters, the empty string
\* and "/" included, yields exactly k+1 segments that join back to the text.
C7_Original ==
    (calls > 0 /\ PathOnly(uriString)) =>
        /\ Len(GetPath(impl)) = Count(Slash, uriString) + 1
        /\ Join(GetPath(impl)) = uriString

\* C7 amended: a path-only input other than "" and "/" with k '/' characters
\* yields exactly k+1 segments that join back to the text; "" yields no
\* segment and "/" yields the single empty segment.
C7_SegmentCount ==
    (calls > 0 /\ PathOnly(uriString)) =>
        /\ returned
        /\ uriString = <<>> => GetPath(impl) = <<>>
        /\ uriString = <<Slash>> => GetPath(impl) = << <<>> >>
        /\ uriString \notin {<<>>, <<Slash>>} =>
              /\ Len(GetPath(impl)) = Count(Slash, uriString) + 1
              /\ Join(GetPath(impl)) = uriString
C7_Witness ==
    /\ calls > 0 /\ PathOnly(uriString)
    /\ Len(GetPath(impl)) = 4
    /\ GetPath(impl)[2] = <<>> /\ GetPath(impl)[4] = <<>>

\* C8: after a successful call the fragment is the text after the first '#'
\* of the part of the remainder that starts at its first '?' or '#', the
\* query is the text between the leading '?' and that '#' (or the end), empty
\* when the part starts with '#' or does not exist; host and path hold no
\* text of that part.
C8_QueryAndFragment ==
    (calls > 0 /\ returned) =>
        LET part == QueryFragmentPart(uriString)
            h == FirstIdx(part, {Hash})
            upToHash == IF h = 0 THEN part ELSE Before(part, h)
        IN /\ GetFragment(impl) = (IF h = 0 THEN <<>> ELSE After(part, h))
           /\ GetQuery(impl) =
                 (IF part = <<>> \/ part[1] = Hash THEN <<>> ELSE After(upToHash, 1))
           /\ ~Occurs(Question, GetHost(impl)) /\ ~Occurs(Hash, GetHost(impl))
           /\ \A k \in 1..Len(GetPath(impl)) :
                 /\ ~Occurs(Question, GetPath(impl)[k])
                 /\ ~Occurs(Hash, GetPath(impl)[k])
           /\ Len(GetHost(impl)) + TotalLen(GetPath(impl))
                 <= Len(Remainder(uriString)) - Len(part)
C8_Witness ==
    /\ calls > 0 /\ returned
    /\ Occurs(Question, GetQuery(impl))
    /\ GetFragment(impl) # <<>> /\ Occurs(Question, GetFragment(impl))

\* C9 as stated: with an authority and a true return, the path is non-empty,
\* its first segment is empty and ContainsRelativePath() is false, also when
\* no path text follows the authority.
C9_Original ==
    (calls > 0 /\ returned /\ AuthorityPresent(uriString)) =>
        /\ GetPath(impl) # <<>>
        /\ GetPath(impl)[1] = <<>>
        /\ ~ContainsRelativePath(impl)

\* C9 amended: with an authority and a true return, when path text follows
\* the authority the path is non-empty, its first segment is empty,
\* ContainsRelativePath() is false and the leading empty segment is not
\* doubled (a path text of k '/' gives k+1 segments, "/" gives one); when no
\* path text follows the authority the path is empty and
\* ContainsRelativePath() is true.
C9_AuthorityPath ==
    (calls > 0 /\ returned /\ AuthorityPresent(uriString)) =>
        LET text == PathText(uriString)
        IN /\ text # <<>> =>
                /\ GetPath(impl) # <<>>
                /\ GetPath(impl)[1] = <<>>
                /\ ~ContainsRelativePath(impl)
                /\ Len(GetPath(impl)) =
                      (IF text = <<Slash>> THEN 1 ELSE Count(Slash, text) + 1)
           /\ text = <<>> =>
                /\ GetPath(impl) = <<>>
                /\ ContainsRelativePath(impl)
C9_Witness ==
    /\ calls > 0 /\ returned /\ AuthorityPresent(uriString)
    /\ PathText(uriString) = <<Slash>>
    /\ GetPath(impl) = << <<>> >>

====
